---------------------------- MODULE Spec2Model ----------------------------
(***************************************************************************)
(* Inventory application: the Collection Store (class Database over the    *)
(* remote key-value backend `kv`), the item handlers (handlePost,          *)
(* handlePut, handleDelete) and the migration handler (migrateData).       *)
(*                                                                         *)
(* Every request runs as one process.  A process is suspended only at an   *)
(* `await kv.get(..)` or `await kv.set(..)`; one action of the model is    *)
(* the backend performing that call (or throwing) together with the        *)
(* synchronous code that runs until the process reaches its next backend   *)
(* call or returns its response.  Requests interleave at these points.     *)
(***************************************************************************)
EXTENDS Integers, Sequences, FiniteSets, TLC

(***************************************************************************)
(* Bounds of the model.                                                    *)
(***************************************************************************)
\* Date.now() runs over 1..MaxTime
MaxTime == 2
\* requests accepted in one run, when requests may overlap
MaxRequests == 2
\* requests accepted in one run, when they are handled one at a time
MaxSeqRequests == 1
\* backend calls (kv.get, kv.set) that throw in one run
MaxFailures == 1

\* items of a collection whose statistics are computed
MaxItems == 2
\* DataManager calls (getItems, addItem, updateItem, deleteItem) made in one run
MaxCalls == 2
\* files chosen and clicks on the migrate button
MaxEvents == 5
\* request slots (requests in flight at the same time)
Procs == {1, 2}

(***************************************************************************)
(* JavaScript values of the numeric and text fields.  A number n/4 is held *)
(* as the integer n (quarters), so that halves and their products are      *)
(* exact: Num(10) is 2.5, Num(12) is 3, and 3 * 2.5 is Num(30) = 7.5.      *)
(***************************************************************************)
Num(n) == [t |-> "number", n |-> n]
NaN == [t |-> "NaN"]
Str(s) == [t |-> "string", s |-> s]
Undefined == [t |-> "undefined"]

\* the number a decimal string denotes, in quarters; -1 when it denotes none
StringToNumber(s) ==
  CASE s = "0" -> 0
    [] s = "1" -> 4
    [] s = "2" -> 8
    [] s = "3" -> 12
    [] s = "1.5" -> 6
    [] s = "2.5" -> 10
    [] OTHER -> -1

\* parseFloat(v)
parseFloat(v) ==
  CASE v.t = "number" -> v
    [] v.t = "string" -> IF StringToNumber(v.s) >= 0 THEN Num(StringToNumber(v.s)) ELSE NaN
    [] OTHER -> NaN

\* parseInt(v): the integer part of what parseFloat reads
parseInt(v) ==
  LET f == parseFloat(v)
  IN IF f.t = "number" THEN Num(4 * (f.n \div 4)) ELSE NaN

\* v is truthy
Truthy(v) ==
  CASE v.t = "number" -> v.n # 0
    [] v.t = "string" -> v.s # ""
    [] v.t = "array" -> TRUE
    [] OTHER -> FALSE

\* v || 0
OrZero(v) == IF Truthy(v) THEN v ELSE Num(0)

\* ToNumber(v), as the operator * applies it to its operands
ToNumber(v) ==
  CASE v.t = "number" -> v
    [] v.t = "string" -> IF v.s = "" THEN Num(0)
                         ELSE IF StringToNumber(v.s) >= 0 THEN Num(StringToNumber(v.s))
                         ELSE NaN
    [] OTHER -> NaN

\* a * b
Times(a, b) ==
  LET x == ToNumber(a)
      y == ToNumber(b)
  IN IF x.t = "number" /\ y.t = "number" THEN Num((x.n * y.n) \div 4) ELSE NaN

(***************************************************************************)
(* The collections.                                                        *)
(***************************************************************************)
EMERGENCY_ITEMS == "emergency_items"
OUTBOUND_RECORDS == "outbound_records"
RETURN_RECORDS == "return_records"
BORROW_RECORDS == "borrow_records"
OPERATION_LOGS == "operation_logs"
KEYS == {EMERGENCY_ITEMS, OUTBOUND_RECORDS, RETURN_RECORDS, BORROW_RECORDS, OPERATION_LOGS}

VARIABLES
  kv,       \* the backend: kv[key] is the array stored under key (<<>> when absent)
  now,      \* Date.now()
  slots,    \* the request slots in use: how many requests may be in flight at once
  started,  \* requests accepted so far
  failures, \* backend calls that have thrown so far
  pc,       \* pc[p]: the handler p runs, the Database call it is in, the await it is at
  id,       \* id[p]: the id query parameter of a PUT or DELETE
  updates,  \* updates[p]: the body of a PUT, then the fields handed to Database.update
  doc,      \* doc[p]: the body of a migration request (backupData)
  result,   \* result[p]: migrateData's result
  item,     \* item[p]: the record handed to Database.add (newItem, or the log entry)
  data,     \* data[p]: the array the Database call in progress holds
  io,       \* io[p]: the last backend call of p and how it ended
  ret,      \* ret[p]: what the last Database.set/add/update/delete of p returned
  exc,      \* exc[p]: an exception has left a Database call of p
  resp      \* resp[p]: the response of the request

\* the browser side: window.dataManager and the page's local storage
VARIABLES
  isOnline,           \* dataManager.isOnline
  checkingConnection, \* dataManager.checkingConnection
  localStorage,       \* the array under localStorage's key 'emergencyItems'
  probe,              \* init(): "pending" until its ApiClient.checkConnection() returns
  check,              \* dataManager.checkConnection(): "pending" while it awaits
  calls,              \* calls[c]: a getItems/addItem/updateItem/deleteItem call
  called,             \* DataManager calls made so far
  failedRemote        \* history: a remote call of an operation has failed

\* the browser side: the migration page
VARIABLES
  backupData,  \* the page's backupData: Null, or what JSON.parse returned
  disabled,    \* migrateBtn.disabled
  reading,     \* reading[t]: FileReaders that have not yet delivered a file of text t
  migrating,   \* startMigration calls waiting for the response of /api/migrate
  events       \* files chosen and clicks on the button so far

pageVars == <<backupData, disabled, reading, migrating, events>>

clientVars ==
  <<isOnline, checkingConnection, localStorage, probe, check, calls, called, failedRemote,
    pageVars>>

vars ==
  <<kv, now, slots, started, failures, pc, id, updates, doc, result, item, data, io, ret, exc, resp,
    clientVars>>

Idle == [h |-> "none", stage |-> "none", at |-> "idle"]
At(h, stage, at) == [h |-> h, stage |-> stage, at |-> at]
NoResponse == [status |-> 0, success |-> FALSE]
NoUpdates == [quantity |-> Undefined, price |-> Undefined, totalValue |-> Undefined]
NoDoc ==
  [emergencyItems |-> Undefined, outboundRecords |-> Undefined,
   returnRecords |-> Undefined, borrowRecords |-> Undefined]
NoResult ==
  [imported |-> [emergencyItems |-> 0, outboundRecords |-> 0,
                 returnRecords |-> 0, borrowRecords |-> 0],
   errors |-> <<>>]

(***************************************************************************)
(* The store at the start: empty, or holding the one item (and its log     *)
(* entry) that POST {name: "x", category: "A", quantity: 2, price: 2.5}    *)
(* left there at time 0.                                                   *)
(***************************************************************************)
Item0 ==
  [id |-> "0", name |-> Str("x"), category |-> Str("A"),
   quantity |-> Num(8), price |-> Num(10), totalValue |-> Num(20)]
Log0 ==
  [id |-> "0", operation |-> "add-item", details |-> <<Str("x"), Num(8)>>,
   operator |-> "system"]
EmptyStore == [k \in KEYS |-> <<>>]
InitialStores ==
  {EmptyStore,
   [EmptyStore EXCEPT ![EMERGENCY_ITEMS] = <<Item0>>, ![OPERATION_LOGS] = <<Log0>>]}

\* DataManager calls in flight at the same time
Calls == {1, 2}
NoCall ==
  [op |-> "none", id |-> "", at |-> "idle", requests |-> 0, applied |-> 0,
   threw |-> FALSE, result |-> Undefined]

\* window.dataManager = new DataManager(): constructor, init() up to its await
DataManager ==
  /\ isOnline = FALSE
  /\ checkingConnection = FALSE
  /\ probe = "pending"
  /\ check = "idle"
  /\ calls = [c \in Calls |-> NoCall]
  /\ called = 0
  /\ failedRemote = FALSE

\* the texts a chosen .json file may hold
Texts == {"document", "null", "invalid"}
Null == [t |-> "null"]
\* the object a backup file holds
Document == [t |-> "object"]

\* the migration page as loaded: let backupData = null; <button id="migrateBtn" disabled>
MigrationPage ==
  /\ backupData = Null
  /\ disabled = TRUE
  /\ reading = [t \in Texts |-> 0]
  /\ migrating = 0
  /\ events = 0

\* no request has come yet
NoRequest ==
  /\ DataManager
  /\ MigrationPage
  /\ now = 1
  /\ started = 0
  /\ failures = 0
  /\ pc = [p \in Procs |-> Idle]
  /\ id = [p \in Procs |-> ""]
  /\ updates = [p \in Procs |-> NoUpdates]
  /\ doc = [p \in Procs |-> NoDoc]
  /\ result = [p \in Procs |-> NoResult]
  /\ item = [p \in Procs |-> <<>>]
  /\ data = [p \in Procs |-> <<>>]
  /\ io = [p \in Procs |-> "none"]
  /\ ret = [p \in Procs |-> FALSE]
  /\ exc = [p \in Procs |-> FALSE]
  /\ resp = [p \in Procs |-> NoResponse]

\* everything but the slots in use
InitState == kv \in InitialStores /\ NoRequest

\* requests may overlap
Init == InitState /\ slots = Procs /\ localStorage = <<>>

\* requests are handled one at a time
InitSeq == InitState /\ slots = {1} /\ localStorage = <<>>

(***************************************************************************)
(* class Database.  `fail` is the outcome of the backend call: TRUE when   *)
(* kv.get or kv.set throws.  A kv.set that throws has stored nothing, and  *)
(* kv.get returns the array the last kv.set stored under the key.          *)
(***************************************************************************)
Return(v) == [threw |-> FALSE, value |-> v]
Throw == [threw |-> TRUE]

\* the outcomes the backend call of this step can have
Outcomes == IF failures < MaxFailures THEN {FALSE, TRUE} ELSE {FALSE}
Failed(fail) == failures' = failures + (IF fail THEN 1 ELSE 0)
IoGet(fail) == IF fail THEN "get_error" ELSE "get_ok"
IoSet(fail) == IF fail THEN "set_error" ELSE "set_ok"

\* Database.get without its try/catch: the backend's exception leaves the call
Database_get_uncaught(key, fail) ==
  IF fail THEN Throw ELSE Return(kv[key])

\* Database.get: try { return (await kv.get(key)) || [] } catch { return [] }
Database_get(key, fail) ==
  LET r == IF fail THEN Throw ELSE Return(kv[key])
  IN IF r.threw THEN Return(<<>>) ELSE Return(r.value)

\* Database.set: try { await kv.set(key, d); return true } catch { return false }
Database_set(key, d, fail) ==
  LET r == IF fail THEN Throw ELSE Return(TRUE)
  IN IF r.threw THEN Return(FALSE) ELSE Return(TRUE)

\* a backend that adds the written records to those the key holds
Stored_merged(key, d, fail) == IF fail THEN kv ELSE [kv EXCEPT ![key] = @ \o d]

\* the backend after kv.set(key, d)
Stored(key, d, fail) == IF fail THEN kv ELSE [kv EXCEPT ![key] = d]

\* data.unshift(item): the record goes to the front
Push_unshift(d, rec) == <<rec>> \o d

\* data.push(item)
Push(d, rec) == Append(d, rec)

\* findIndex with a test that every record passes
FindIndex_any(d, i) == IF d # <<>> THEN 1 ELSE 0

\* data.findIndex(item => item.id === id): the first match, 0 for -1
FindIndex(d, i) ==
  IF \E n \in 1..Len(d) : d[n].id = i
  THEN CHOOSE n \in 1..Len(d) : d[n].id = i /\ \A m \in 1..(n - 1) : d[m].id # i
  ELSE 0

\* { ...rec, ...u }: the fields u supplies overwrite those of rec
Merge(rec, u) ==
  [rec EXCEPT !.quantity = IF u.quantity # Undefined THEN u.quantity ELSE @,
              !.price = IF u.price # Undefined THEN u.price ELSE @,
              !.totalValue = IF u.totalValue # Undefined THEN u.totalValue ELSE @]

\* an update applied to every record that has the id of data[index]
Updated_all(d, index, u) ==
  [n \in 1..Len(d) |-> IF d[n].id = d[index].id THEN Merge(d[n], u) ELSE d[n]]

\* data with data[index] = { ...data[index], ...u }
Updated(d, index, u) == [d EXCEPT ![index] = Merge(d[index], u)]

\* data.filter(item => item.id !== id)
Filter(d, i) == SelectSeq(d, LAMBDA rec : rec.id # i)

\* the key a Database call of the given stage works on
KeyOf(stage) ==
  CASE stage = "log" -> OPERATION_LOGS
    [] stage = "outboundRecords" -> OUTBOUND_RECORDS
    [] stage = "returnRecords" -> RETURN_RECORDS
    [] stage = "borrowRecords" -> BORROW_RECORDS
    [] OTHER -> EMERGENCY_ITEMS

\* Database.logOperation builds its entry: id from Date.now()
LogEntry(operation, details) ==
  [id |-> ToString(now), operation |-> operation, details |-> details, operator |-> "system"]

(***************************************************************************)
(* Requests.                                                               *)
(***************************************************************************)
PostNames == {Undefined, Str("x")}
PostCategories == {Undefined, Str("A")}
PostQuantities == {Undefined, Num(0), Str("2.5"), Str("abc")}
PostPrices == {Undefined, Str("1.5")}
PostBodies ==
  [name : PostNames, category : PostCategories, quantity : PostQuantities, price : PostPrices]

QueryIds == {"", "0", "7"}
PutQuantities == {Undefined, Num(12)}
PutPrices == {Undefined, Num(4)}
PutBodies == [quantity : PutQuantities, price : PutPrices]

\* an array of a migration document
Arr(a) == [t |-> "array", a |-> a]
RawItem(i, q, pr) ==
  [id |-> i, name |-> Str("x"), category |-> Str("B"), quantity |-> q, price |-> pr]
RawRecord(i, q) == [id |-> i, quantity |-> q]
Docs ==
  {[NoDoc EXCEPT !.emergencyItems = Arr(<<RawItem(Undefined, Str("3"), Str("2.5"))>>)],
   [NoDoc EXCEPT !.emergencyItems = Arr(<<RawItem(Str("5"), Num(4), Num(4)),
                                          RawItem(Num(24), Str("abc"), Undefined)>>),
                 !.outboundRecords = Arr(<<RawRecord(Str("8"), Str("2.5"))>>)],
   [NoDoc EXCEPT !.emergencyItems = Str("none"),
                 !.outboundRecords = Arr(<<>>),
                 !.returnRecords = Arr(<<RawRecord(Num(4), Num(8))>>),
                 !.borrowRecords = Arr(<<RawRecord(Undefined, Undefined),
                                         RawRecord(Arr(<<>>), Num(0))>>)],
   NoDoc}

\* the values Math.random() may append to a synthesized id
Randoms == {"0.25", "0.75"}

\* a new request goes to the first free slot
Accepts(p) ==
  /\ p \in slots
  /\ started < (IF slots = Procs THEN MaxRequests ELSE MaxSeqRequests)
  /\ pc[p] = Idle
  /\ \A q \in Procs : q < p => pc[q] # Idle

Ok200 == [status |-> 200, success |-> TRUE]
Error(status) == [status |-> status, success |-> FALSE]

\* the item handlePost builds from the body (newItem)
NewItem(body) ==
  [id |-> ToString(now),
   name |-> body.name,
   category |-> body.category,
   quantity |-> parseInt(body.quantity),
   price |-> OrZero(parseFloat(body.price)),
   totalValue |-> Times(OrZero(parseInt(body.quantity)), OrZero(parseFloat(body.price)))]

\* the entry a handler logs after its Database call succeeded
HandlerLog(p) ==
  CASE pc[p].h = "post" -> LogEntry("add-item", <<item[p].name, item[p].quantity>>)
    [] pc[p].h = "put" -> LogEntry("update-item", <<id[p]>>)
    [] OTHER -> LogEntry("delete-item", <<id[p]>>)

\* migrateData's result once the log is written: success iff no category failed
MigrateResponse(res) ==
  IF res.errors = <<>> THEN Ok200 ELSE Error(500)

\* a handler that answers without calling logOperation
Resume_nolog(p, success) ==
  /\ pc' = [pc EXCEPT ![p] = At(pc[p].h, pc[p].stage, "done")]
  /\ resp' = [resp EXCEPT ![p] =
       IF pc[p].stage = "log" /\ pc[p].h = "migrate" THEN MigrateResponse(result[p])
       ELSE IF pc[p].stage = "log" \/ success THEN Ok200
       ELSE Error(500)]
  /\ item' = item

\* The handler's code after Database.add/update/delete returned `success`,
\* and after logOperation returned: the next call, or the response.
Resume(p, success) ==
  IF pc[p].stage = "log"
  THEN /\ pc' = [pc EXCEPT ![p] = At(pc[p].h, "log", "done")]
       /\ resp' = [resp EXCEPT ![p] =
            IF pc[p].h = "migrate" THEN MigrateResponse(result[p]) ELSE Ok200]
       /\ item' = item
  ELSE IF success
  THEN /\ pc' = [pc EXCEPT ![p] = At(pc[p].h, "log", "get")]
       /\ item' = [item EXCEPT ![p] = HandlerLog(p)]
       /\ resp' = resp
  ELSE /\ pc' = [pc EXCEPT ![p] = At(pc[p].h, pc[p].stage, "done")]
       /\ resp' = [resp EXCEPT ![p] = Error(500)]
       /\ item' = item

\* handler's catch: an exception that left a Database call is answered 500
Caught(p) ==
  /\ pc' = [pc EXCEPT ![p] = At(pc[p].h, pc[p].stage, "done")]
  /\ resp' = [resp EXCEPT ![p] = Error(500)]
  /\ exc' = [exc EXCEPT ![p] = TRUE]

\* the categories migrateData imports, in its order
Categories == <<"emergencyItems", "outboundRecords", "returnRecords", "borrowRecords">>

\* backupData[c] && Array.isArray(backupData[c])
IsArray(v) == v.t = "array"

\* id.toString() of an id of the document
RECURSIVE IdToString(_), Join(_)
IdToString(v) ==
  CASE v.t = "string" -> v.s
    [] v.t = "number" -> ToString(v.n \div 4)
    [] v.t = "array" -> Join(v.a)
    [] OTHER -> ""

\* Array.prototype.toString: the elements' strings with commas between
Join(a) ==
  IF a = <<>> THEN ""
  ELSE IF Len(a) = 1 THEN IdToString(a[1])
  ELSE IdToString(a[1]) \o "," \o Join(Tail(a))

\* item.id ? item.id.toString() : Date.now().toString() + Math.random()
MigratedId(v, rnd) == IF Truthy(v) THEN IdToString(v) ELSE ToString(now) \o rnd

\* one element of the array migrateData stores for category c
Migrated(c, raw, rnd) ==
  IF c = "emergencyItems"
  THEN [id |-> MigratedId(raw.id, rnd),
        name |-> raw.name,
        category |-> raw.category,
        quantity |-> OrZero(parseInt(raw.quantity)),
        price |-> OrZero(parseFloat(raw.price)),
        totalValue |-> Times(OrZero(parseInt(raw.quantity)), OrZero(parseFloat(raw.price)))]
  ELSE [id |-> MigratedId(raw.id, rnd),
        quantity |-> OrZero(parseInt(raw.quantity))]

\* backupData[c].map(..): rnds[n] is what Math.random() returns for element n
MigratedArray(c, a, rnds) == [n \in 1..Len(a) |-> Migrated(c, a[n], rnds[n])]

\* the first category after the k-th that the document holds as an array, 0 if none
NextCategory(d, k) ==
  IF \E n \in (k + 1)..Len(Categories) : IsArray(d[Categories[n]])
  THEN CHOOSE n \in (k + 1)..Len(Categories) :
         /\ IsArray(d[Categories[n]])
         /\ \A m \in (k + 1)..(n - 1) : ~IsArray(d[Categories[m]])
  ELSE 0

\* the place of category c in Categories
CategoryIndex(c) == CHOOSE n \in 1..Len(Categories) : Categories[n] = c

\* the summary entry migrateData logs
MigrateLog(res) ==
  LogEntry("migrate",
           <<res.imported.emergencyItems, res.imported.outboundRecords,
             res.imported.returnRecords, res.imported.borrowRecords>>)

\* a migrateData that gives up at the first category whose write failed
Migrate_abort(p, d, res, k) ==
  LET n == IF res.errors # <<>> THEN 0 ELSE NextCategory(d, k)
  IN IF n = 0
     THEN /\ pc' = [pc EXCEPT ![p] = At("migrate", "log", "get")]
          /\ item' = [item EXCEPT ![p] = MigrateLog(res)]
          /\ data' = [data EXCEPT ![p] = <<>>]
     ELSE /\ pc' = [pc EXCEPT ![p] = At("migrate", Categories[n], "set")]
          /\ item' = item
          /\ \E rnds \in [1..Len(d[Categories[n]].a) -> Randoms] :
               data' = [data EXCEPT ![p] = MigratedArray(Categories[n], d[Categories[n]].a, rnds)]

\* migrateData goes on after the k-th category: it maps the next array of the
\* document and calls Database.set, or calls logOperation when none is left
Migrate(p, d, res, k) ==
  LET n == NextCategory(d, k)
  IN IF n = 0
     THEN /\ pc' = [pc EXCEPT ![p] = At("migrate", "log", "get")]
          /\ item' = [item EXCEPT ![p] = MigrateLog(res)]
          /\ data' = [data EXCEPT ![p] = <<>>]
     ELSE /\ pc' = [pc EXCEPT ![p] = At("migrate", Categories[n], "set")]
          /\ item' = item
          /\ \E rnds \in [1..Len(d[Categories[n]].a) -> Randoms] :
               data' = [data EXCEPT ![p] = MigratedArray(Categories[n], d[Categories[n]].a, rnds)]

\* Date.now() advances
Tick ==
  /\ now < MaxTime
  /\ now' = now + 1
  /\ UNCHANGED <<kv, slots, clientVars, started, failures, pc, id, updates, doc, result, item, data, io, ret, exc, resp>>

\* a validation that takes the quantity 0 for a missing one
Rejected_falsy(body) ==
  ~Truthy(body.name) \/ ~Truthy(body.category) \/ ~Truthy(body.quantity)

\* handlePost's validation: !data.name || !data.category || data.quantity === undefined
Rejected(body) ==
  ~Truthy(body.name) \/ ~Truthy(body.category) \/ body.quantity = Undefined

\* handlePost up to its call of Database.add
handlePost(p, body) ==
  /\ Accepts(p)
  /\ started' = started + 1
  /\ IF Rejected(body)
     THEN /\ pc' = [pc EXCEPT ![p] = At("post", "none", "done")]
          /\ resp' = [resp EXCEPT ![p] = Error(400)]
          /\ item' = item
     ELSE /\ pc' = [pc EXCEPT ![p] = At("post", "add", "get")]
          /\ resp' = resp
          /\ item' = [item EXCEPT ![p] = NewItem(body)]
  /\ UNCHANGED <<kv, now, slots, clientVars, failures, id, updates, doc, result, data, io, ret, exc>>

\* handlePut up to its first Database call
handlePut(p, i, body) ==
  /\ Accepts(p)
  /\ started' = started + 1
  /\ IF i = ""
     THEN /\ pc' = [pc EXCEPT ![p] = At("put", "none", "done")]
          /\ resp' = [resp EXCEPT ![p] = Error(400)]
          /\ UNCHANGED <<id, updates>>
     ELSE /\ id' = [id EXCEPT ![p] = i]
          /\ updates' = [updates EXCEPT ![p] =
               [quantity |-> body.quantity, price |-> body.price, totalValue |-> Undefined]]
          /\ pc' = [pc EXCEPT ![p] =
               IF body.quantity # Undefined \/ body.price # Undefined
               THEN At("put", "find", "get")
               ELSE At("put", "update", "get")]
          /\ resp' = resp
  /\ UNCHANGED <<kv, now, slots, clientVars, failures, doc, result, item, data, io, ret, exc>>

\* handleDelete up to its call of Database.delete
handleDelete(p, i) ==
  /\ Accepts(p)
  /\ started' = started + 1
  /\ IF i = ""
     THEN /\ pc' = [pc EXCEPT ![p] = At("delete", "none", "done")]
          /\ resp' = [resp EXCEPT ![p] = Error(400)]
          /\ id' = id
     ELSE /\ id' = [id EXCEPT ![p] = i]
          /\ pc' = [pc EXCEPT ![p] = At("delete", "delete", "get")]
          /\ resp' = resp
  /\ UNCHANGED <<kv, now, slots, clientVars, failures, updates, doc, result, item, data, io, ret, exc>>

\* Database.add, its read: const data = await this.get(key)
Database_add_get(p) ==
  /\ pc[p].at = "get"
  /\ pc[p].stage \in {"add", "log"}
  /\ \E fail \in Outcomes :
       LET r == Database_get(KeyOf(pc[p].stage), fail)
       IN /\ Failed(fail)
          /\ io' = [io EXCEPT ![p] = IoGet(fail)]
          /\ IF r.threw
             THEN /\ ret' = [ret EXCEPT ![p] = FALSE]
                  /\ data' = data
                  /\ Resume(p, FALSE)
             ELSE /\ data' = [data EXCEPT ![p] = r.value]
                  /\ pc' = [pc EXCEPT ![p].at = "set"]
                  /\ UNCHANGED <<ret, item, resp>>
  /\ UNCHANGED <<kv, now, slots, clientVars, started, id, updates, doc, result, exc>>

\* Database.add with a version check: the write is refused when the key no
\* longer holds what was read
Database_add_set_versioned(p) ==
  /\ pc[p].at = "set"
  /\ pc[p].stage \in {"add", "log"}
  /\ \E fail \in Outcomes :
       LET d == Push(data[p], item[p])
           stale == kv[KeyOf(pc[p].stage)] # data[p]
           r == Database_set(KeyOf(pc[p].stage), d, fail \/ stale)
       IN /\ Failed(fail)
          /\ kv' = Stored(KeyOf(pc[p].stage), d, fail \/ stale)
          /\ io' = [io EXCEPT ![p] = IoSet(fail)]
          /\ data' = [data EXCEPT ![p] = d]
          /\ ret' = [ret EXCEPT ![p] = r.value]
          /\ Resume(p, r.value)
  /\ UNCHANGED <<now, slots, clientVars, started, id, updates, doc, result, exc>>

\* Database.add, its write: data.push(item); return await this.set(key, data)
Database_add_set(p) ==
  /\ pc[p].at = "set"
  /\ pc[p].stage \in {"add", "log"}
  /\ \E fail \in Outcomes :
       LET d == Push(data[p], item[p])
           r == Database_set(KeyOf(pc[p].stage), d, fail)
       IN /\ Failed(fail)
          /\ kv' = Stored(KeyOf(pc[p].stage), d, fail)
          /\ io' = [io EXCEPT ![p] = IoSet(fail)]
          /\ data' = [data EXCEPT ![p] = d]
          /\ ret' = [ret EXCEPT ![p] = r.value]
          /\ Resume(p, r.value)
  /\ UNCHANGED <<now, slots, clientVars, started, id, updates, doc, result, exc>>

\* handlePut's own read: items = await Database.get(..); item = items.find(..);
\* updates.totalValue = quantity * price
handlePut_get(p) ==
  /\ pc[p] = At("put", "find", "get")
  /\ \E fail \in Outcomes :
       LET r == Database_get(EMERGENCY_ITEMS, fail)
       IN /\ Failed(fail)
          /\ io' = [io EXCEPT ![p] = IoGet(fail)]
          /\ IF r.threw
             THEN /\ Caught(p)
                  /\ UNCHANGED <<updates, data>>
             ELSE LET index == FindIndex(r.value, id[p])
                      quantity == IF updates[p].quantity # Undefined
                                  THEN updates[p].quantity
                                  ELSE r.value[index].quantity
                      price == IF updates[p].price # Undefined
                               THEN updates[p].price
                               ELSE r.value[index].price
                  IN /\ updates' = IF index # 0
                                   THEN [updates EXCEPT ![p].totalValue = Times(quantity, price)]
                                   ELSE updates
                     /\ data' = [data EXCEPT ![p] = r.value]
                     /\ pc' = [pc EXCEPT ![p] = At("put", "update", "get")]
                     /\ UNCHANGED <<resp, exc>>
  /\ UNCHANGED <<kv, now, slots, clientVars, started, id, doc, result, item, ret>>

\* Database.update without its check of the index: the write follows every read
Database_update_get_unchecked(p) ==
  /\ pc[p] = At("put", "update", "get")
  /\ \E fail \in Outcomes :
       LET r == Database_get(EMERGENCY_ITEMS, fail)
       IN /\ Failed(fail)
          /\ io' = [io EXCEPT ![p] = IoGet(fail)]
          /\ data' = [data EXCEPT ![p] = r.value]
          /\ pc' = [pc EXCEPT ![p].at = "set"]
          /\ UNCHANGED <<ret, item, resp>>
  /\ UNCHANGED <<kv, now, slots, clientVars, started, id, updates, doc, result, exc>>

\* Database.update, its read and findIndex
Database_update_get(p) ==
  /\ pc[p] = At("put", "update", "get")
  /\ \E fail \in Outcomes :
       LET r == Database_get(EMERGENCY_ITEMS, fail)
       IN /\ Failed(fail)
          /\ io' = [io EXCEPT ![p] = IoGet(fail)]
          /\ IF ~r.threw /\ FindIndex(r.value, id[p]) # 0
             THEN /\ data' = [data EXCEPT ![p] = r.value]
                  /\ pc' = [pc EXCEPT ![p].at = "set"]
                  /\ UNCHANGED <<ret, item, resp>>
             ELSE /\ ret' = [ret EXCEPT ![p] = FALSE]
                  /\ data' = IF r.threw THEN data ELSE [data EXCEPT ![p] = r.value]
                  /\ Resume(p, FALSE)
  /\ UNCHANGED <<kv, now, slots, clientVars, started, id, updates, doc, result, exc>>

\* Database.update, its write: data[index] = {...data[index], ...updates}
Database_update_set(p) ==
  /\ pc[p] = At("put", "update", "set")
  /\ \E fail \in Outcomes :
       LET d == Updated(data[p], FindIndex(data[p], id[p]), updates[p])
           r == Database_set(EMERGENCY_ITEMS, d, fail)
       IN /\ Failed(fail)
          /\ kv' = Stored(EMERGENCY_ITEMS, d, fail)
          /\ io' = [io EXCEPT ![p] = IoSet(fail)]
          /\ data' = [data EXCEPT ![p] = d]
          /\ ret' = [ret EXCEPT ![p] = r.value]
          /\ Resume(p, r.value)
  /\ UNCHANGED <<now, slots, clientVars, started, id, updates, doc, result, exc>>

\* Database.delete, its read
Database_delete_get(p) ==
  /\ pc[p] = At("delete", "delete", "get")
  /\ \E fail \in Outcomes :
       LET r == Database_get(EMERGENCY_ITEMS, fail)
       IN /\ Failed(fail)
          /\ io' = [io EXCEPT ![p] = IoGet(fail)]
          /\ IF r.threw
             THEN /\ ret' = [ret EXCEPT ![p] = FALSE]
                  /\ data' = data
                  /\ Resume(p, FALSE)
             ELSE /\ data' = [data EXCEPT ![p] = r.value]
                  /\ pc' = [pc EXCEPT ![p].at = "set"]
                  /\ UNCHANGED <<ret, item, resp>>
  /\ UNCHANGED <<kv, now, slots, clientVars, started, id, updates, doc, result, exc>>

\* Database.delete, its write: newData = data.filter(..); return await this.set(key, newData)
Database_delete_set(p) ==
  /\ pc[p] = At("delete", "delete", "set")
  /\ \E fail \in Outcomes :
       LET d == Filter(data[p], id[p])
           r == Database_set(EMERGENCY_ITEMS, d, fail)
       IN /\ Failed(fail)
          /\ kv' = Stored(EMERGENCY_ITEMS, d, fail)
          /\ io' = [io EXCEPT ![p] = IoSet(fail)]
          /\ data' = [data EXCEPT ![p] = d]
          /\ ret' = [ret EXCEPT ![p] = r.value]
          /\ Resume(p, r.value)
  /\ UNCHANGED <<now, slots, clientVars, started, id, updates, doc, result, exc>>

\* the migration handler up to migrateData's first Database call
migrateData(p, d) ==
  /\ Accepts(p)
  /\ started' = started + 1
  /\ doc' = [doc EXCEPT ![p] = d]
  /\ result' = [result EXCEPT ![p] = NoResult]
  /\ Migrate(p, d, NoResult, 0)
  /\ UNCHANGED <<kv, now, slots, clientVars, failures, id, updates, io, ret, exc, resp>>

\* migrateData: success = await Database.set(key, mapped); the count or the
\* error is recorded and the next category is taken
migrateData_set(p) ==
  /\ pc[p].h = "migrate"
  /\ pc[p].stage # "log"
  /\ pc[p].at = "set"
  /\ \E fail \in Outcomes :
       LET c == pc[p].stage
           r == Database_set(KeyOf(c), data[p], fail)
           res == IF r.value
                  THEN [result[p] EXCEPT !.imported[c] = Len(data[p])]
                  ELSE [result[p] EXCEPT !.errors = Append(@, c)]
       IN /\ Failed(fail)
          /\ kv' = Stored(KeyOf(c), data[p], fail)
          /\ io' = [io EXCEPT ![p] = IoSet(fail)]
          /\ ret' = [ret EXCEPT ![p] = r.value]
          /\ result' = [result EXCEPT ![p] = res]
          /\ Migrate(p, doc[p], res, CategoryIndex(c))
  /\ UNCHANGED <<now, slots, clientVars, started, id, updates, doc, exc, resp>>

\* the response is returned; the slot is free again
Respond(p) ==
  /\ pc[p].at = "done"
  /\ pc' = [pc EXCEPT ![p] = Idle]
  /\ id' = [id EXCEPT ![p] = ""]
  /\ updates' = [updates EXCEPT ![p] = NoUpdates]
  /\ doc' = [doc EXCEPT ![p] = NoDoc]
  /\ result' = [result EXCEPT ![p] = NoResult]
  /\ item' = [item EXCEPT ![p] = <<>>]
  /\ data' = [data EXCEPT ![p] = <<>>]
  /\ io' = [io EXCEPT ![p] = "none"]
  /\ ret' = [ret EXCEPT ![p] = FALSE]
  /\ exc' = [exc EXCEPT ![p] = FALSE]
  /\ resp' = [resp EXCEPT ![p] = NoResponse]
  /\ UNCHANGED <<kv, now, slots, clientVars, started, failures>>

Next ==
  \/ Tick
  \/ \E p \in Procs, body \in PostBodies : handlePost(p, body)
  \/ \E p \in Procs, i \in QueryIds, body \in PutBodies : handlePut(p, i, body)
  \/ \E p \in Procs, i \in QueryIds : handleDelete(p, i)
  \/ \E p \in Procs, d \in Docs : migrateData(p, d)
  \/ \E p \in Procs : Database_add_get(p)
  \/ \E p \in Procs : Database_add_set(p)
  \/ \E p \in Procs : handlePut_get(p)
  \/ \E p \in Procs : Database_update_get(p)
  \/ \E p \in Procs : Database_update_set(p)
  \/ \E p \in Procs : Database_delete_get(p)
  \/ \E p \in Procs : Database_delete_set(p)
  \/ \E p \in Procs : migrateData_set(p)
  \/ \E p \in Procs : Respond(p)

Spec == Init /\ [][Next]_vars

\* requests handled one at a time
SpecSeq == InitSeq /\ [][Next]_vars

\* POST requests only, overlapping: Database.add calls on the same keys, for
\* bodies without price
AddBodies ==
  {body \in PostBodies :
     /\ body.name # Undefined
     /\ body.category # Undefined
     /\ body.quantity # Str("abc")
     /\ body.price = Undefined}
NextAdd ==
  \/ Tick
  \/ \E p \in Procs, body \in AddBodies : handlePost(p, body)
  \/ \E p \in Procs : Database_add_get(p)
  \/ \E p \in Procs : Database_add_set(p)
  \/ \E p \in Procs : Respond(p)

InitAdd ==
  /\ kv = EmptyStore
  /\ NoRequest
  /\ slots = Procs
  /\ localStorage = <<>>

SpecAdd == InitAdd /\ [][NextAdd]_vars

(***************************************************************************)
(* GET /items: handleGet and calculateStats.  stats.categories is a plain  *)
(* object: reading a key it does not own gives what Object.prototype has   *)
(* under that key, or undefined.                                           *)
(***************************************************************************)
\* an item counts as low stock when its quantity is below this
LowStockThreshold == 5

\* keys every plain object inherits from Object.prototype
ObjectPrototype == {"constructor", "toString", "valueOf", "hasOwnProperty", "__proto__"}

\* the property key a value is turned into
PropertyKey(v) ==
  CASE v.t = "string" -> v.s
    [] v.t = "number" -> ToString(v.n \div 4)
    [] OTHER -> v.t

\* a + b on numbers
Plus(a, b) ==
  IF a.t = "number" /\ b.t = "number" THEN Num(a.n + b.n) ELSE NaN

\* a < b on numbers; false when either is NaN
Less(a, b) ==
  LET x == ToNumber(a)
      y == ToNumber(b)
  IN x.t = "number" /\ y.t = "number" /\ x.n < y.n

NoStats == [totalItems |-> 0, totalValue |-> Num(0), categories |-> <<>>, lowStock |-> <<>>]

\* the body of calculateStats' forEach for one item
StatsStep(stats, it) ==
  LET key == PropertyKey(it.category)
      own == key \in DOMAIN stats.categories
      \* if (!stats.categories[key]) stats.categories[key] = {count: 0, value: 0}
      cats == IF ~own /\ key \notin ObjectPrototype
              THEN [k \in DOMAIN stats.categories \cup {key} |->
                      IF k = key THEN [count |-> 0, value |-> Num(0)]
                      ELSE stats.categories[k]]
              ELSE stats.categories
      \* .count++ and .value += ..: on the inherited object when key is not owned
      counted == IF key \in DOMAIN cats
                 THEN [cats EXCEPT ![key] =
                         [count |-> @.count + 1,
                          value |-> Plus(@.value, OrZero(it.totalValue))]]
                 ELSE cats
  IN [totalItems |-> stats.totalItems,
      totalValue |-> Plus(stats.totalValue, OrZero(it.totalValue)),
      categories |-> counted,
      lowStock |-> IF Less(it.quantity, Num(4 * LowStockThreshold))
                   THEN Append(stats.lowStock,
                               [id |-> it.id, name |-> it.name, quantity |-> it.quantity])
                   ELSE stats.lowStock]

RECURSIVE StatsOver(_, _, _)
\* items.forEach from the n-th item on
StatsOver(stats, items, n) ==
  IF n > Len(items) THEN stats ELSE StatsOver(StatsStep(stats, items[n]), items, n + 1)

calculateStats(items) ==
  StatsOver([NoStats EXCEPT !.totalItems = Len(items)], items, 1)

Actions == {"list", "stats", "other"}

\* handleGet up to its Database.get
handleGet(p, action) ==
  /\ Accepts(p)
  /\ started' = started + 1
  /\ IF action \in {"list", "stats"}
     THEN /\ pc' = [pc EXCEPT ![p] = At("get", action, "get")]
          /\ resp' = resp
     ELSE /\ pc' = [pc EXCEPT ![p] = At("get", "none", "done")]
          /\ resp' = [resp EXCEPT ![p] = Error(400)]
  /\ UNCHANGED <<kv, now, slots, clientVars, failures, id, updates, doc, result, item, data, io,
                 ret, exc>>

\* handleGet: the items are read and answered, or their statistics
handleGet_get(p) ==
  /\ pc[p].h = "get"
  /\ pc[p].at = "get"
  /\ \E fail \in Outcomes :
       LET r == Database_get(EMERGENCY_ITEMS, fail)
       IN /\ Failed(fail)
          /\ io' = [io EXCEPT ![p] = IoGet(fail)]
          /\ IF r.threw
             THEN /\ Caught(p)
                  /\ data' = data
             ELSE /\ data' = [data EXCEPT ![p] = r.value]
                  /\ pc' = [pc EXCEPT ![p].at = "done"]
                  /\ resp' = [resp EXCEPT ![p] =
                       [status |-> 200, success |-> TRUE,
                        data |-> IF pc[p].stage = "stats"
                                 THEN calculateStats(r.value)
                                 ELSE Arr(r.value)]]
                  /\ exc' = exc
  /\ UNCHANGED <<kv, now, slots, clientVars, started, id, updates, doc, result, item, ret>>

\* the items whose statistics are asked for
StatsCategories == {Str("A"), Str("B"), Str("constructor")}
StatsItem(i, c, q, t) ==
  [id |-> ToString(i), name |-> Str("x"), category |-> c,
   quantity |-> q, price |-> Num(t.n \div (q.n \div 4)), totalValue |-> t]
StatsItems(i) ==
  {StatsItem(i, c, qt[1], qt[2]) :
     c \in StatsCategories, qt \in {<<Num(8), Num(20)>>, <<Num(20), Num(0)>>}}
StatsCollections ==
  UNION {{a \in [1..n -> UNION {StatsItems(i) : i \in 1..n}] :
            \A i \in 1..n : a[i] \in StatsItems(i)} : n \in 0..MaxItems}

NextStats ==
  \/ \E p \in Procs, action \in Actions : handleGet(p, action)
  \/ \E p \in Procs : handleGet_get(p)
  \/ \E p \in Procs : Respond(p)

InitStats ==
  /\ \E a \in StatsCollections : kv = [EmptyStore EXCEPT ![EMERGENCY_ITEMS] = a]
  /\ NoRequest
  /\ slots = {1}
  /\ localStorage = <<>>

\* GET requests, one at a time, on a store of items
SpecStats == InitStats /\ [][NextStats]_vars

\* PUT requests, one at a time, on a store whose items may share an id (two
\* POST requests of the same millisecond, or a migrated document, leave such)
UpdateItem(i, q) ==
  [Item0 EXCEPT !.id = i, !.quantity = q, !.totalValue = Times(q, Item0.price)]
UpdateItems == {UpdateItem(i, q) : i \in {"0", "7"}, q \in {Num(4), Num(8)}}
UpdateCollections == UNION {[1..n -> UpdateItems] : n \in 0..MaxItems}

NextUpdate ==
  \/ Tick
  \/ \E p \in Procs, i \in QueryIds, body \in PutBodies : handlePut(p, i, body)
  \/ \E p \in Procs : handlePut_get(p)
  \/ \E p \in Procs : Database_update_get(p)
  \/ \E p \in Procs : Database_update_set(p)
  \/ \E p \in Procs : Database_add_get(p)
  \/ \E p \in Procs : Database_add_set(p)
  \/ \E p \in Procs : Respond(p)

InitUpdate ==
  /\ \E a \in UpdateCollections : kv = [EmptyStore EXCEPT ![EMERGENCY_ITEMS] = a]
  /\ NoRequest
  /\ slots = {1}
  /\ localStorage = <<>>

SpecUpdate == InitUpdate /\ [][NextUpdate]_vars

(***************************************************************************)
(* The browser side: class DataManager over ApiClient and localStorage.    *)
(* A remote call either returns the server's answer or throws (network     *)
(* error, or a response that is not ok); localStorage.setItem may throw.   *)
(* The code between two awaits runs as one step.                           *)
(***************************************************************************)
serverVars ==
  <<kv, slots, started, failures, pc, id, updates, doc, result, item, data, io, ret, exc, resp>>

Operations == {"getItems", "addItem", "updateItem", "deleteItem"}
LocalIds == {"0", "7"}
\* the itemData of addItem and the updates of updateItem
ItemData == [quantity |-> Num(8)]
Updates == [quantity |-> Num(12)]
LocalItem0 == [id |-> "0", quantity |-> Num(4)]
LocalStores == {<<>>, <<LocalItem0>>}

\* getLocalItems: JSON.parse(localStorage.getItem('emergencyItems') || '[]')
getLocalItems(ls) == [storage |-> ls, result |-> Arr(ls)]

\* addLocalItem; fail: localStorage.setItem throws
addLocalItem(ls, itemData, fail) ==
  LET newItem == [id |-> ToString(now), quantity |-> itemData.quantity]
  IN IF fail
     THEN [storage |-> ls, result |-> [success |-> FALSE, error |-> "exception"]]
     ELSE [storage |-> Append(ls, newItem), result |-> [success |-> TRUE, data |-> newItem]]

\* updateLocalItem
updateLocalItem(ls, i, u, fail) ==
  LET index == FindIndex(ls, i)
  IN IF index = 0
     THEN [storage |-> ls, result |-> [success |-> FALSE, error |-> "not found"]]
     ELSE IF fail
     THEN [storage |-> ls, result |-> [success |-> FALSE, error |-> "exception"]]
     ELSE [storage |-> [ls EXCEPT ![index].quantity = u.quantity],
           result |-> [success |-> TRUE]]

\* deleteLocalItem
deleteLocalItem(ls, i, fail) ==
  IF fail
  THEN [storage |-> ls, result |-> [success |-> FALSE, error |-> "exception"]]
  ELSE [storage |-> Filter(ls, i), result |-> [success |-> TRUE]]

\* the local storage method of an operation
Local(op, ls, i, fail) ==
  CASE op = "getItems" -> getLocalItems(ls)
    [] op = "addItem" -> addLocalItem(ls, ItemData, fail)
    [] op = "updateItem" -> updateLocalItem(ls, i, Updates, fail)
    [] OTHER -> deleteLocalItem(ls, i, fail)

\* what ApiClient returns for an operation that the server answered
Remote(op) == [server |-> op]

\* a fallback that runs the local storage method twice
ServedLocally_twice(c, op, i, requests) ==
  \E fail \in BOOLEAN :
    LET first == Local(op, localStorage, i, fail)
        l == Local(op, first.storage, i, fail)
    IN /\ localStorage' = l.storage
       /\ calls' = [calls EXCEPT ![c] =
            [op |-> op, id |-> i, at |-> "done", requests |-> requests,
             applied |-> calls[c].applied + 2, threw |-> FALSE, result |-> l.result]]

\* the call is served from local storage and returns
ServedLocally(c, op, i, requests) ==
  \E fail \in BOOLEAN :
    LET l == Local(op, localStorage, i, fail)
    IN /\ localStorage' = l.storage
       /\ calls' = [calls EXCEPT ![c] =
            [op |-> op, id |-> i, at |-> "done", requests |-> requests,
             applied |-> calls[c].applied + 1, threw |-> FALSE, result |-> l.result]]

\* init(): this.isOnline = await ApiClient.checkConnection()
DataManager_init(r) ==
  /\ probe = "pending"
  /\ probe' = "done"
  /\ isOnline' = r
  /\ UNCHANGED <<serverVars, pageVars, now, checkingConnection, localStorage, check, calls, called,
                 failedRemote>>

\* checkConnection() up to its await
DataManager_checkConnection ==
  /\ ~checkingConnection
  /\ checkingConnection' = TRUE
  /\ check' = "pending"
  /\ UNCHANGED <<serverVars, pageVars, now, isOnline, localStorage, probe, calls, called, failedRemote>>

\* checkConnection() after its await: the flag is assigned, finally resets
DataManager_checkConnection_done(r) ==
  /\ check = "pending"
  /\ isOnline' = r
  /\ checkingConnection' = FALSE
  /\ check' = "idle"
  /\ UNCHANGED <<serverVars, pageVars, now, localStorage, probe, calls, called, failedRemote>>

\* operations that ask the server first whatever the flag says
DataManager_call_remote(c, op, i) ==
  /\ called < MaxCalls
  /\ calls[c].at = "idle"
  /\ \A b \in Calls : b < c => calls[b].at # "idle"
  /\ called' = called + 1
  /\ calls' = [calls EXCEPT ![c] =
       [NoCall EXCEPT !.op = op, !.id = i, !.at = "remote", !.requests = 1]]
  /\ localStorage' = localStorage
  /\ UNCHANGED <<serverVars, pageVars, now, isOnline, checkingConnection, probe, check, failedRemote>>

\* getItems / addItem / updateItem / deleteItem up to the await, or to the
\* return when offline
DataManager_call(c, op, i) ==
  /\ called < MaxCalls
  /\ calls[c].at = "idle"
  /\ \A b \in Calls : b < c => calls[b].at # "idle"
  /\ called' = called + 1
  /\ IF isOnline
     THEN /\ calls' = [calls EXCEPT ![c] =
               [NoCall EXCEPT !.op = op, !.id = i, !.at = "remote", !.requests = 1]]
          /\ localStorage' = localStorage
     ELSE ServedLocally(c, op, i, 0)
  /\ UNCHANGED <<serverVars, pageVars, now, isOnline, checkingConnection, probe, check, failedRemote>>

\* a DataManager whose operations set the flag online when the server answers
DataManager_call_done_online(c, ok) ==
  /\ calls[c].at = "remote"
  /\ LET r == IF ok THEN Return(Remote(calls[c].op)) ELSE Throw
     IN IF r.threw
        THEN /\ isOnline' = FALSE
             /\ failedRemote' = TRUE
             /\ ServedLocally(c, calls[c].op, calls[c].id, calls[c].requests)
        ELSE /\ calls' = [calls EXCEPT ![c].at = "done", ![c].result = r.value]
             /\ isOnline' = TRUE
             /\ UNCHANGED <<failedRemote, localStorage>>
  /\ UNCHANGED <<serverVars, pageVars, now, checkingConnection, probe, check, called>>

\* the remote call returns or throws; catch: isOnline = false, the local method
DataManager_call_done(c, ok) ==
  /\ calls[c].at = "remote"
  /\ LET r == IF ok THEN Return(Remote(calls[c].op)) ELSE Throw
     IN IF r.threw
        THEN /\ isOnline' = FALSE
             /\ failedRemote' = TRUE
             /\ ServedLocally(c, calls[c].op, calls[c].id, calls[c].requests)
        ELSE /\ calls' = [calls EXCEPT ![c].at = "done", ![c].result = r.value]
             /\ UNCHANGED <<isOnline, failedRemote, localStorage>>
  /\ UNCHANGED <<serverVars, pageVars, now, checkingConnection, probe, check, called>>

\* the call has returned to its caller
DataManager_return(c) ==
  /\ calls[c].at = "done"
  /\ calls' = [calls EXCEPT ![c] = NoCall]
  /\ UNCHANGED <<serverVars, pageVars, now, isOnline, checkingConnection, localStorage, probe, check,
                 called, failedRemote>>

NextClient ==
  \/ Tick
  \/ \E r \in BOOLEAN : DataManager_init(r)
  \/ DataManager_checkConnection
  \/ \E r \in BOOLEAN : DataManager_checkConnection_done(r)
  \/ \E c \in Calls, op \in Operations, i \in LocalIds : DataManager_call(c, op, i)
  \/ \E c \in Calls, ok \in BOOLEAN : DataManager_call_done(c, ok)
  \/ \E c \in Calls : DataManager_return(c)

\* the page alone: no request slot on the server side
InitClient == InitState /\ kv = EmptyStore /\ slots = {} /\ localStorage \in LocalStores

SpecClient == InitClient /\ [][NextClient]_vars

(***************************************************************************)
(* The migration page: loadBackupFile, its reader's onload, startMigration. *)
(* A click reaches startMigration only while the button is enabled.  The    *)
(* fetch of /api/migrate answers or throws; both end in the finally block.  *)
(***************************************************************************)
Files == Texts \cup {"none", "other"}

\* JSON.parse(e.target.result)
JSON_parse(text) ==
  CASE text = "document" -> Return(Document)
    [] text = "null" -> Return(Null)
    [] OTHER -> Throw

\* displayDataPreview(data) reads data.emergencyItems: a TypeError on null
displayDataPreview(d) == IF d = Null THEN Throw ELSE Return(TRUE)

\* loadBackupFile(event): no file, or a name that does not end in .json,
\* returns; else reader.readAsText(file)
loadBackupFile(f) ==
  /\ events < MaxEvents
  /\ events' = events + 1
  /\ reading' = IF f \in Texts THEN [reading EXCEPT ![f] = @ + 1] ELSE reading
  /\ UNCHANGED <<serverVars, now, isOnline, checkingConnection, localStorage, probe, check,
                 calls, called, failedRemote, backupData, disabled, migrating>>

\* reader.onload: try { backupData = JSON.parse(..); displayDataPreview(backupData);
\* migrateBtn.disabled = false } catch { backupData = null; migrateBtn.disabled = true }
reader_onload(text) ==
  /\ reading[text] > 0
  /\ reading' = [reading EXCEPT ![text] = @ - 1]
  /\ LET parsed == JSON_parse(text)
     IN IF parsed.threw \/ displayDataPreview(parsed.value).threw
        THEN backupData' = Null /\ disabled' = TRUE
        ELSE backupData' = parsed.value /\ disabled' = FALSE
  /\ UNCHANGED <<serverVars, now, isOnline, checkingConnection, localStorage, probe, check,
                 calls, called, failedRemote, migrating, events>>

\* a click on migrateBtn: startMigration up to its await fetch(..)
startMigration ==
  /\ ~disabled
  /\ events < MaxEvents
  /\ events' = events + 1
  /\ IF backupData = Null
     THEN UNCHANGED <<disabled, migrating>>
     ELSE disabled' = TRUE /\ migrating' = migrating + 1
  /\ UNCHANGED <<serverVars, now, isOnline, checkingConnection, localStorage, probe, check,
                 calls, called, failedRemote, backupData, reading>>

\* startMigration after its await, answered or thrown: finally { migrateBtn.disabled = false }
startMigration_done ==
  /\ migrating > 0
  /\ migrating' = migrating - 1
  /\ disabled' = FALSE
  /\ UNCHANGED <<serverVars, now, isOnline, checkingConnection, localStorage, probe, check,
                 calls, called, failedRemote, backupData, reading, events>>

NextPage ==
  \/ \E f \in Files : loadBackupFile(f)
  \/ \E text \in Texts : reader_onload(text)
  \/ startMigration
  \/ startMigration_done

\* the migration page alone
InitPage == InitState /\ kv = EmptyStore /\ slots = {} /\ localStorage = <<>>

SpecPage == InitPage /\ [][NextPage]_vars

(***************************************************************************)
(* Properties.                                                             *)
(***************************************************************************)
ITEMS == kv[EMERGENCY_ITEMS]
LOGS == kv[OPERATION_LOGS]
Last(s) == s[Len(s)]
IsPrefix(s, t) == Len(s) <= Len(t) /\ SubSeq(t, 1, Len(s)) = s
\* the records of s whose id is not i, in their order
Others(s, i) == SelectSeq(s, LAMBDA rec : rec.id # i)
\* process p takes the step it is waiting for
Steps(p) == pc'[p] # pc[p]
ItemHandlers == {"post", "put", "delete"}
OperationOf(h) ==
  CASE h = "post" -> "add-item"
    [] h = "put" -> "update-item"
    [] OTHER -> "delete-item"

\* C1: Database.add(key, r) whose read and write both succeed, with no other
\* write to the key in between, returns true, and a following Database.get(key)
\* returns the previous records in their order followed by r, once, intact.
C1_AddThenGet ==
  [][\A p \in Procs : \A key \in KEYS :
       (/\ pc[p].at = "set"
        /\ pc[p].stage \in {"add", "log"}
        /\ key = KeyOf(pc[p].stage)
        /\ Steps(p)
        /\ io[p] = "get_ok"
        /\ io'[p] = "set_ok"
        /\ kv[key] = data[p])
       => /\ ret'[p] = TRUE
          /\ Database_get(key, FALSE)' = Return(Append(kv[key], item[p]))]_vars

\* C1: an add of a new item to a store that held Item0 has returned true
C1_Added ==
  \E p \in Procs :
    /\ pc[p] = At("post", "log", "get")
    /\ io[p] = "set_ok"
    /\ ret[p]
    /\ Len(ITEMS) = 2
    /\ ITEMS[1] = Item0
    /\ ITEMS[2].name = Str("x")

\* C2: when Database.delete(key, id) returns true, the stored collection is
\* the collection before the call without the records of that id: every
\* record of another id is still there, in its order.
C2_DeleteKeepsOthers ==
  [][\A p \in Procs :
       (pc[p] = At("delete", "delete", "set") /\ Steps(p) /\ ret'[p])
       => ITEMS' = Others(ITEMS, id[p])]_vars

\* C3: Database.update with an id that no record of the stored collection has
\* returns false, writes nothing and leaves the store as it is.
C3_UpdateNonexistent ==
  [][\A p \in Procs :
       (/\ pc[p] = At("put", "update", "get")
        /\ Steps(p)
        /\ \A n \in 1..Len(ITEMS) : ITEMS[n].id # id[p])
       => /\ ret'[p] = FALSE
          /\ pc'[p].at = "done"
          /\ kv' = kv]_vars

\* C3: a PUT for id "7" has found the one stored item, whose id is "0", and
\* Database.update has returned false
C3_NotFound ==
  \E p \in Procs :
    /\ pc[p] = At("put", "update", "done")
    /\ io[p] = "get_ok"
    /\ id[p] = "7"
    /\ ~ret[p]
    /\ ITEMS = <<Item0>>

\* C4: in every state, every stored item has totalValue = quantity * price;
\* stated here of the items whose stored quantity and price are numbers.
C4_TotalValue ==
  \A n \in 1..Len(ITEMS) :
    (ITEMS[n].quantity.t = "number" /\ ITEMS[n].price.t = "number")
    => ITEMS[n].totalValue = Times(ITEMS[n].quantity, ITEMS[n].price)

\* C5: the item a valid POST stores has totalValue = quantity * price, for
\* the quantity and the price stored in it.
C5_PostTotalValue ==
  [][\A p \in Procs :
       (pc[p] = At("post", "add", "set") /\ Steps(p) /\ ret'[p])
       => Last(ITEMS').totalValue = Times(Last(ITEMS').quantity, Last(ITEMS').price)]_vars

\* C6: a PUT on a stored item, no other request running: with price and no
\* quantity in the body the stored totalValue becomes the stored quantity
\* times the new price; with quantity and no price, the new quantity times
\* the stored price.
C6_PutRecomputes ==
  [][\A p \in Procs : \A n \in 1..Len(ITEMS) :
       (/\ pc[p] = At("put", "update", "set")
        /\ Steps(p)
        /\ ret'[p]
        /\ ITEMS = data[p]
        /\ n = FindIndex(ITEMS, id[p]))
       => /\ (updates[p].price # Undefined /\ updates[p].quantity = Undefined)
               => ITEMS'[n].totalValue = Times(ITEMS[n].quantity, updates[p].price)
          /\ (updates[p].quantity # Undefined /\ updates[p].price = Undefined)
               => ITEMS'[n].totalValue = Times(updates[p].quantity, ITEMS[n].price)]_vars

\* C7: in every state, no two records of a stored collection have the same id.
C7_UniqueIds ==
  \A key \in KEYS : \A m, n \in 1..Len(kv[key]) : m # n => kv[key][m].id # kv[key][n].id

\* C8: no Database call lets a backend exception out: after a backend read
\* that threw, Database.get has returned the empty array and the caller goes
\* on; after a backend write, the call has returned false if it threw and true
\* if it did not; no handler has caught an exception.
C8_NoExceptionPropagates ==
  \A p \in Procs :
    /\ ~exc[p]
    /\ io[p] = "get_error" => data[p] = <<>>
    /\ io[p] = "set_error" => ret[p] = FALSE
    /\ io[p] = "set_ok" => ret[p] = TRUE

\* C8: the backend read of a Database.add threw while the store held records,
\* and the add goes on to its write with the empty array
C8_ReadFailed ==
  \E p \in Procs :
    /\ pc[p].at = "set"
    /\ io[p] = "get_error"
    /\ data[p] = <<>>
    /\ kv[KeyOf(pc[p].stage)] # <<>>

C10_LogAppendOnly ==
  [][IsPrefix(LOGS, LOGS')]_vars

CategoryNames == {Categories[n] : n \in 1..Len(Categories)}
\* category c is in the errors of result res
InErrors(res, c) == \E n \in 1..Len(res.errors) : res.errors[n] = c

ProbeCompletes ==
  \/ probe = "pending" /\ probe' = "done"
  \/ check = "pending" /\ check' = "idle"

LocalOnce(c) ==
  /\ calls'[c].applied = 1
  /\ \E fail \in BOOLEAN :
       LET l == Local(calls'[c].op, localStorage, calls'[c].id, fail)
       IN localStorage' = l.storage /\ calls'[c].result = l.result

\* C13: a call made while the flag is offline issues no remote request and
\* is applied once to local storage; a call made while it is online issues
\* one remote request and, when that request fails, the flag becomes offline
\* and the operation is applied once to local storage, whose result is
\* returned; otherwise the server's answer is returned and local storage is
\* untouched; the call never throws.
C13_FallbackOnce ==
  [][\A c \in Calls :
       /\ (calls[c].at = "idle" /\ calls'[c].at # "idle")
          => IF isOnline
             THEN /\ calls'[c].at = "remote"
                  /\ calls'[c].requests = 1
                  /\ calls'[c].applied = 0
                  /\ localStorage' = localStorage
             ELSE /\ calls'[c].at = "done"
                  /\ calls'[c].requests = 0
                  /\ LocalOnce(c)
       /\ (calls[c].at = "remote" /\ calls'[c].at # "remote")
          => /\ calls'[c].at = "done"
             /\ calls'[c].requests = 1
             /\ \/ /\ calls'[c].result = Remote(calls[c].op)
                   /\ calls'[c].applied = 0
                   /\ localStorage' = localStorage
                   /\ isOnline' = isOnline
                \/ /\ ~isOnline'
                   /\ LocalOnce(c)
       /\ ~calls'[c].threw]_vars

\* C13: an addItem went to the server, failed, and was added once to the
\* local storage that held one item
C13_FellBack ==
  \E c \in Calls :
    /\ calls[c].at = "done"
    /\ calls[c].op = "addItem"
    /\ calls[c].requests = 1
    /\ calls[c].applied = 1
    /\ ~isOnline
    /\ Len(localStorage) = 2
    /\ localStorage[1] = LocalItem0
    /\ calls[c].result = [success |-> TRUE, data |-> localStorage[2]]

RECURSIVE ValueSum(_)
\* the sum of the totalValue of the items of s, in quarters
ValueSum(s) == IF s = <<>> THEN 0 ELSE s[1].totalValue.n + ValueSum(Tail(s))
\* the items of s of category c
OfCategory(s, c) == SelectSeq(s, LAMBDA it : it.category = c)
\* the items of s with a quantity below the threshold of 5, as stats lists them
LowStock(s) ==
  LET low == SelectSeq(s, LAMBDA it : it.quantity.n < 4 * 5)
  IN [n \in 1..Len(low) |->
        [id |-> low[n].id, name |-> low[n].name, quantity |-> low[n].quantity]]

\* C14: the statistics answered for a collection of items: totalItems is
\* their number, totalValue the sum of their totalValue, every category that
\* occurs has its count and the sum of its items' totalValue and no other
\* category is listed, lowStock lists the items of quantity below 5 in order.
C14_Stats ==
  \A p \in Procs :
    (pc[p] = At("get", "stats", "done") /\ resp[p].success)
    => LET items == data[p]
           stats == resp[p].data
       IN /\ stats.totalItems = Len(items)
          /\ stats.totalValue = Num(ValueSum(items))
          /\ DOMAIN stats.categories = {items[n].category.s : n \in 1..Len(items)}
          /\ \A n \in 1..Len(items) :
               LET c == items[n].category
               IN /\ c.s \in DOMAIN stats.categories
                  /\ stats.categories[c.s].count = Len(OfCategory(items, c))
                  /\ stats.categories[c.s].value = Num(ValueSum(OfCategory(items, c)))
          /\ stats.lowStock = LowStock(items)

\* C15: a POST whose body lacks name or category or has quantity undefined, and
\* a PUT or a DELETE without id, is answered 400 at once: the request makes no
\* Database call, so it reads and writes neither the items nor the log, and
\* the store is as before.  A POST with name, category and quantity 0 is not
\* rejected: it goes on to Database.add, and 400 is answered to no request
\* that went on.
C15_Validation ==
  [][\A p \in Procs :
       LET refused == /\ pc'[p].stage = "none"
                      /\ pc'[p].at = "done"
                      /\ resp'[p] = Error(400)
                      /\ io'[p] = "none"
                      /\ kv' = kv
       IN /\ \A body \in PostBodies :
               handlePost(p, body) =>
                 IF body.name = Undefined \/ body.category = Undefined
                    \/ body.quantity = Undefined
                 THEN refused
                 ELSE /\ pc'[p] = At("post", "add", "get")
                      /\ resp'[p] = NoResponse
                      /\ body.quantity = Num(0) => item'[p].quantity = Num(0)
          /\ \A body \in PutBodies : handlePut(p, "", body) => refused
          /\ handleDelete(p, "") => refused
          /\ pc[p].stage = "none" /\ pc[p].at = "done" /\ Steps(p) =>
               pc'[p] = Idle /\ io[p] = "none" /\ kv' = kv
          /\ pc[p].h \in ItemHandlers /\ pc[p].stage # "none" =>
               resp'[p].status # 400]_vars

\* a request was refused with 400 and has made no Database call
C15_Refused ==
  \E p \in Procs :
    /\ pc[p].h \in ItemHandlers
    /\ pc[p].stage = "none"
    /\ resp[p] = Error(400)
    /\ io[p] = "none"

\* the request of p has not called logOperation yet, no stored item has its
\* id, and none had it in what its Database call read
NotFound(p) ==
  /\ pc[p].h \in {"put", "delete"}
  /\ pc[p].at \in {"get", "set"}
  /\ pc[p].stage # "log"
  /\ FindIndex(ITEMS, id[p]) = 0
  /\ pc[p].at = "set" => FindIndex(data[p], id[p]) = 0

\* C16 as stated: a PUT or a DELETE whose id matches no stored item is answered
\* as a failure and writes no operation-log entry.
C16_NotFoundFails ==
  [][\A p \in Procs :
       NotFound(p) /\ Steps(p) =>
         /\ pc'[p].stage # "log"
         /\ pc'[p].at = "done" => ~resp'[p].success
         /\ LOGS' = LOGS]_vars

\* C16, amended: a PUT whose id matches no stored item is answered 500 and
\* never calls logOperation.  A DELETE whose id matches no stored item fails
\* only when its write fails; when the write succeeds it goes on to
\* logOperation and is answered with success.
C16_PutNotFoundFails ==
  [][\A p \in Procs :
       /\ NotFound(p) /\ Steps(p) /\ pc[p].h = "put" =>
            /\ pc'[p].stage # "log"
            /\ pc'[p].at = "done" => resp'[p] = Error(500)
            /\ LOGS' = LOGS
       /\ NotFound(p) /\ Steps(p) /\ pc[p].h = "delete" /\ pc[p].at = "set" =>
            IF io'[p] = "set_ok"
            THEN /\ pc'[p] = At("delete", "log", "get")
                 /\ item'[p] = LogEntry("delete-item", <<id[p]>>)
            ELSE /\ pc'[p] = At("delete", "delete", "done")
                 /\ resp'[p] = Error(500)
       /\ pc[p].h = "delete" /\ pc[p].stage = "log" /\ Steps(p) /\ pc'[p].at = "done" =>
            resp'[p] = Ok200]_vars

\* a PUT whose id no stored item has was answered 500 though its reads succeeded
C16_PutNotFound ==
  \E p \in Procs :
    /\ pc[p] = At("put", "update", "done")
    /\ FindIndex(ITEMS, id[p]) = 0
    /\ io[p] = "get_ok"
    /\ resp[p] = Error(500)

\* the ids migrateData can synthesize
Synthesized == {ToString(t) \o rnd : t \in 1..MaxTime, rnd \in Randoms}

\* C17: every record migrateData has stored, of every category: its id is a
\* non-empty string, the string form of the id the document gave, or a
\* synthesized one when the document gave none; its quantity is an integer, 0
\* when the document's quantity cannot be parsed; an item's price is a number,
\* 0 when it cannot be parsed, and its totalValue is its stored quantity times
\* its stored price.
C17_MigratedRecords ==
  [][\A p \in Procs :
       migrateData_set(p) /\ io'[p] = "set_ok" =>
         LET c == pc[p].stage
             raw == doc[p][c].a
             stored == kv'[KeyOf(c)]
         IN /\ Len(stored) = Len(raw)
            /\ \A n \in 1..Len(raw) :
                 /\ stored[n].id # ""
                 /\ IF raw[n].id = Undefined
                    THEN stored[n].id \in Synthesized
                    ELSE stored[n].id = IdToString(raw[n].id)
                 /\ stored[n].quantity.t = "number"
                 /\ stored[n].quantity.n % 4 = 0
                 /\ parseInt(raw[n].quantity) = NaN => stored[n].quantity = Num(0)
                 /\ c = "emergencyItems" =>
                      /\ stored[n].price.t = "number"
                      /\ parseFloat(raw[n].price) = NaN => stored[n].price = Num(0)
                      /\ stored[n].totalValue.t = "number"
                      /\ 4 * stored[n].totalValue.n
                           = stored[n].quantity.n * stored[n].price.n]_vars

\* C18: Database.add has no lock and no version check: a write the backend
\* accepts stores the records the call read followed by its record, whatever
\* the key holds by then, and the call returns true; so two overlapping calls
\* on one key can both return true while the key keeps the record of one only.
C18_AddOverwrites ==
  [][\A p \in Procs :
       /\ pc[p].at = "set"
       /\ pc[p].stage \in {"add", "log"}
       /\ Steps(p)
       /\ io'[p] = "set_ok"
       => /\ kv'[KeyOf(pc[p].stage)] = Append(data[p], item[p])
          /\ ret'[p] = TRUE]_vars

\* Two POST requests overlapped, no backend call failed, the Database.add of
\* both returned true, and the items hold the record of one but not of the other.
C18_LostUpdate ==
  \E p, q \in Procs :
    /\ p # q
    /\ failures = 0
    /\ pc[p] = At("post", "log", "get")
    /\ pc[q] = At("post", "log", "get")
    /\ item[p].details[2] # item[q].details[2]
    /\ \A n \in 1..Len(ITEMS) : ITEMS[n].quantity # item[p].details[2]
    /\ \E n \in 1..Len(ITEMS) : ITEMS[n].quantity = item[q].details[2]

\* record `new` is record `old` with the fields u supplies written over it
Overwritten(new, old, u) ==
  /\ new.id = old.id
  /\ new.name = old.name
  /\ new.category = old.category
  /\ new.quantity = (IF u.quantity = Undefined THEN old.quantity ELSE u.quantity)
  /\ new.price = (IF u.price = Undefined THEN old.price ELSE u.price)
  /\ new.totalValue = (IF u.totalValue = Undefined THEN old.totalValue ELSE u.totalValue)

\* C19: with no other writer and no backend failure, Database.update(key, id,
\* fields) on a collection holding a record with that id goes on to its write
\* and returns true; afterwards the first record with the id is its previous
\* value with the supplied fields written over it, and every other record,
\* later records with the same id among them, the length and the order are as
\* before.
C19_UpdateFrame ==
  [][\A p \in Procs :
       LET index == FindIndex(ITEMS, id[p])
       IN /\ pc[p] = At("put", "update", "get") /\ Steps(p) /\ index # 0
             /\ failures' = 0
             => pc'[p] = At("put", "update", "set") /\ data'[p] = ITEMS
          /\ pc[p] = At("put", "update", "set") /\ Steps(p) /\ failures' = 0
             => /\ index # 0
                /\ ret'[p] = TRUE
                /\ Len(ITEMS') = Len(ITEMS)
                /\ \A n \in 1..Len(ITEMS) :
                     IF n = index
                     THEN /\ \A m \in 1..(n - 1) : ITEMS[m].id # id[p]
                          /\ Overwritten(ITEMS'[n], ITEMS[n], updates[p])
                     ELSE ITEMS'[n] = ITEMS[n]]_vars

\* Database.update has returned true, no backend call failed, and of two
\* records with the id the first has the new quantity and the second has not
C19_FirstOfTwoUpdated ==
  \E p \in Procs :
    /\ pc[p] = At("put", "log", "get")
    /\ failures = 0
    /\ Len(ITEMS) = 2
    /\ ITEMS[1].id = id[p]
    /\ ITEMS[2].id = id[p]
    /\ updates[p].quantity = Num(12)
    /\ ITEMS[1].quantity = Num(12)
    /\ ITEMS[2].quantity # Num(12)

\* C20: Database.delete(key, id) returns false only when its write fails: its
\* read is always followed by its write; a write the backend accepts makes it
\* return true, also when no stored record has the id, and then the stored
\* collection is as before.
C20_DeleteUnmatched ==
  [][\A p \in Procs :
       /\ pc[p] = At("delete", "delete", "get") /\ Steps(p)
          => pc'[p] = At("delete", "delete", "set")
       /\ pc[p] = At("delete", "delete", "set") /\ Steps(p)
          => /\ ret'[p] = (io'[p] = "set_ok")
             /\ io'[p] = "set_ok" /\ FindIndex(ITEMS, id[p]) = 0 => ITEMS' = ITEMS]_vars

\* C21: a DELETE whose id no stored item has, and whose writes the backend
\* accepts, leaves the items as they were, goes on to logOperation, appends
\* one entry for the deletion to the log, and is answered with success.
C21_DeleteUnmatchedLogs ==
  [][\A p \in Procs :
       /\ pc[p] = At("delete", "delete", "set") /\ Steps(p) /\ io'[p] = "set_ok"
          /\ FindIndex(ITEMS, id[p]) = 0
          => /\ ITEMS' = ITEMS
             /\ pc'[p] = At("delete", "log", "get")
       /\ pc[p] = At("delete", "log", "set") /\ Steps(p) /\ io'[p] = "set_ok"
          => /\ LOGS' = Append(LOGS, [id |-> Last(LOGS').id,
                                      operation |-> "delete-item",
                                      details |-> <<id[p]>>,
                                      operator |-> "system"])
             /\ ITEMS' = ITEMS
             /\ resp'[p] = Ok200]_vars

\* C22: with no other writer, a Database.add, Database.update or
\* Database.delete that returns true keeps every record that was stored and is
\* not its target: add keeps all of them in front of the appended one, update
\* all but the first with the id, delete all that have another id; also when
\* the read of the call met a backend failure.
C22_KeepsUntargeted ==
  [][\A p \in Procs :
       pc[p].at = "set" /\ pc[p].h \in ItemHandlers /\ Steps(p) /\ ret'[p] =>
         LET key == KeyOf(pc[p].stage)
         IN CASE pc[p].stage \in {"add", "log"} ->
                   IsPrefix(kv[key], kv'[key])
              [] pc[p].stage = "update" ->
                   /\ Len(kv'[key]) = Len(kv[key])
                   /\ \A n \in 1..Len(kv[key]) :
                        n # FindIndex(kv[key], id[p]) => kv'[key][n] = kv[key][n]
              [] pc[p].stage = "delete" ->
                   Others(kv'[key], id[p]) = Others(kv[key], id[p])
              [] OTHER -> TRUE]_vars

\* record `rec` of category c is the normalized form of the document's `raw`
Normalized(c, rec, raw) ==
  /\ IF Truthy(raw.id) THEN rec.id = IdToString(raw.id) ELSE rec.id \in Synthesized
  /\ rec.quantity = OrZero(parseInt(raw.quantity))
  /\ c = "emergencyItems" =>
       /\ rec.name = raw.name
       /\ rec.category = raw.category
       /\ rec.price = OrZero(parseFloat(raw.price))
       /\ rec.totalValue = Times(rec.quantity, rec.price)

\* C23: a migration replaces and does not merge.  Each of its writes is for a
\* category the document holds as an array; a write the backend accepts leaves
\* under the category's key exactly the document's records, normalized, in the
\* document's order, and nothing of what was stored; every other key is as
\* before, so the collection of a category the document lacks, or holds as
\* something else than an array, is never written.
C23_MigrationReplaces ==
  [][\A p \in Procs :
       /\ migrateData_set(p) =>
            LET c == pc[p].stage
                raw == doc[p][c]
                stored == kv'[KeyOf(c)]
            IN /\ IsArray(raw)
               /\ \A k \in KEYS \ {KeyOf(c)} : kv'[k] = kv[k]
               /\ IF io'[p] = "set_ok"
                  THEN /\ Len(stored) = Len(raw.a)
                       /\ \A n \in 1..Len(stored) : Normalized(c, stored[n], raw.a[n])
                  ELSE stored = kv[KeyOf(c)]
       /\ pc[p].h = "migrate" /\ Steps(p) /\ ~migrateData_set(p) =>
            \A k \in KEYS \ {OPERATION_LOGS} : kv'[k] = kv[k]
       /\ pc[p] = Idle /\ pc'[p].h = "migrate" => kv' = kv]_vars

\* a migration has written its items over a store that held item 0: the item
\* is gone, the imported records are there
C23_Replaced ==
  \E p \in Procs :
    /\ pc[p].h = "migrate"
    /\ LOGS = <<Log0>>
    /\ ITEMS # <<>>
    /\ \A n \in 1..Len(ITEMS) : ITEMS[n] # Item0
    /\ result[p].imported.emergencyItems = Len(ITEMS)
    /\ Len(ITEMS) = Len(doc[p].emergencyItems.a)

\* C24 as stated: while the startup probe of init() is pending the flag is
\* false and no call has issued a remote request.
C24_OfflineUntilStartupProbe ==
  probe = "pending" => ~isOnline /\ \A c \in Calls : calls[c].requests = 0

\* C24, amended: the flag is false from construction until a connectivity
\* probe completes, the one of init() or one of a checkConnection call, and
\* nothing else sets it; a getItems, addItem, updateItem or deleteItem call
\* made while the flag is false returns at once, with its operation applied
\* once to local storage and no remote request, whatever the server would
\* have answered.
C24_OfflineUntilAProbe ==
  /\ ~isOnline
  /\ [][/\ ~isOnline /\ isOnline' => ProbeCompletes
        /\ \A c \in Calls :
             ~isOnline /\ calls[c].at = "idle" /\ calls'[c].at # "idle" =>
               /\ calls'[c].at = "done"
               /\ calls'[c].requests = 0
               /\ LocalOnce(c)
               /\ ~isOnline']_vars

\* the startup probe is pending, no checkConnection is under way, the flag is
\* false, and a call has been served from local storage without a request
C24_ServedInWindow ==
  /\ probe = "pending"
  /\ check = "idle"
  /\ ~isOnline
  /\ \E c \in Calls :
       calls[c].at = "done" /\ calls[c].requests = 0 /\ calls[c].applied = 1

\* C25: on the migration page at most one migration request is in flight, and
\* while one is in flight the migrate button is disabled.
C25_OneMigrationInFlight ==
  /\ migrating <= 1
  /\ migrating > 0 => disabled

\* C26: on the migration page the migrate button is enabled only when
\* backupData holds a parsed document, not null.
C26_EnabledMeansDocument ==
  ~disabled => backupData # Null

====
